---- MODULE Spec2Model ----
(***************************************************************************)
(* Wafer handling cell: the ingestion server (src/server.py) and the       *)
(* sensor sender (src/sender.py).                                          *)
(*                                                                         *)
(* ServerSpec is the server process: the accept loop of Server.listen, one *)
(* handle_client thread per allowed connection, and save_data's            *)
(* open / writerow / close steps on the shared CSV file.                   *)
(* SenderSpec is the sender process: Sender.run, send_data and reconnect,  *)
(* one step per statement that talks to the socket, the clock or the LED.  *)
(***************************************************************************)
EXTENDS Integers, Sequences, FiniteSets, TLC

\* ------------------------------------------------------------------ bounds

\* Connections the accept loop accepts in one run.
MaxConns == 2
\* Frames the peers send in one run, over all connections.
MaxFrames == 2
\* Largest attempt budget tried besides the shipped one.
MaxBudget == 8
\* Failed attempts followed in unbounded mode.
MaxTracked == 8

\* ------------------------------------------------------------- text, rows

\* Python's None where a socket is expected, and where an attempt budget is:
\* a budget of n attempts is <<n>>, no budget is <<>>.
NoSocket == "None"
None == <<>>

Min(a, b) == IF a < b THEN a ELSE b

\* str.join(",", parts): the fields with one comma between neighbours.
RECURSIVE join(_)
join(parts) ==
    IF Len(parts) = 0 THEN <<>>
    ELSE IF Len(parts) = 1 THEN Head(parts)
    ELSE Head(parts) \o <<",">> \o join(Tail(parts))

\* data.split(","): a text is a sequence of characters, "," the delimiter.
RECURSIVE split(_)
split(data) ==
    IF data = <<>> THEN << <<>> >>
    ELSE IF Head(data) = "," THEN << <<>> >> \o split(Tail(data))
    ELSE LET rest == split(Tail(data))
         IN  << <<Head(data)>> \o Head(rest) >> \o Tail(rest)

\* csv.writer(file).writerow(parts): one line, the fields comma-separated
\* (no field of a split text holds the delimiter; the line end is implied by
\* the row's place in the file).
writerow(parts) == join(parts)

headers ==
    << <<"time">>, <<"sh_id">>, <<"ori_r">>, <<"ori_p">>, <<"ori_y">>,
       <<"gyr_x">>, <<"gyr_y">>, <<"gyr_z">>, <<"acc_x">>, <<"acc_y">>,
       <<"acc_z">> >>

\* Sender.fetch_data: time, name, 3 orientation, 3 gyroscope, 3 accelerometer
\* values, comma-separated.
fetch_data(name) ==
    join(<< <<"t">>, <<name>>, <<"r">>, <<"p">>, <<"y">>, <<"gx">>, <<"gy">>,
            <<"gz">>, <<"ax">>, <<"ay">>, <<"az">> >>)

\* What one recv(1024) can return as text: a frame of either sender, a frame
\* cut to 9 fields, and two frames delivered by one read.
ShortFrame ==
    join(<< <<"t">>, <<"rpi01">>, <<"r">>, <<"p">>, <<"y">>, <<"gx">>,
            <<"gy">>, <<"gz">>, <<"ax">> >>)
CoalescedFrame == fetch_data("rpi01") \o fetch_data("rpi02")
ValidFrames == {fetch_data("rpi01"), fetch_data("rpi02")}
Frames == ValidFrames \cup {ShortFrame, CoalescedFrame}

allowed_ips ==
    {"192.168.0.201", "192.168.0.202", "192.168.0.203", "192.168.0.204"}

\* Peer addresses that try to connect: an allowed one and a stranger.
PeerAddrs == {"192.168.0.201", "10.0.0.7"}

Conns == 1..MaxConns

RECURSIVE Count(_, _)
Count(seq, x) ==
    IF seq = <<>> THEN 0
    ELSE (IF Head(seq) = x THEN 1 ELSE 0) + Count(Tail(seq), x)

RECURSIVE Sum(_, _)
Sum(f, S) ==
    IF S = {} THEN 0
    ELSE LET x == CHOOSE y \in S : TRUE IN f[x] + Sum(f, S \ {x})

VARIABLES
    \* ---- server process
    server_pc,      \* "init" | "listen" | "down": where Server.run is
    server_sock,    \* "open" | "listening" | "closed": the listening socket
    csv_exists,     \* os.path.isfile(csv_path)
    csv,            \* the lines of the CSV file
    naccepted,      \* connections accepted so far
    client_socket,  \* per connection: "unused" | "open" | "closed"
    address,        \* per connection: the peer's address
    thread,         \* per connection: where its handle_client thread is
    message,        \* per handler: the text save_data is running with
    file,           \* per handler: the lines buffered in its open file object
    nreads,         \* per connection: recv calls made on its socket
    nsaved,         \* per handler: save_data calls that returned
    ncloses,        \* per connection: close calls on its socket
    closed_by,      \* per connection: "none" | "listen" | "handler"
    exc,            \* per handler: the exception that ended it, or "none"
    called,         \* per text: save_data calls entered with it
    raised,         \* per text: save_data calls that raised
    nstarted,       \* per connection: handler threads started for it
    overlapped,     \* two handlers have had the file open at the same time
    nframes,        \* per handler: recv calls that returned a non-empty text
    \* ---- sender process
    pc,                  \* where Sender.run is
    caller,              \* the call site reconnect() returns to
    sock,                \* NoSocket | "created" | "connected"
    cur_recon_attempts,
    max_recon_attempts,
    wait_time,           \* the wait computed by the last failed attempt
    led,                 \* the last picture shown on the Sense HAT: the
                         \* number, the red X or the blue A (the progress
                         \* pixels of update_led_pb are not followed)
    fails,               \* failed attempts since the last successful connect
    aborted,             \* reconnect() has ended on the exhausted budget
    first_failed,        \* this send_data's first sendall raised socket.error
    n_sendall,           \* this send_data's sendall calls that reached a socket
    n_reconnect          \* reconnect() calls made for this record after that

server_vars ==
    <<server_pc, server_sock, csv_exists, csv, naccepted, client_socket,
      address, thread, message, file, nreads, nsaved, ncloses, closed_by, exc,
      called, raised, nstarted, overlapped, nframes>>

sender_vars ==
    <<pc, caller, sock, cur_recon_attempts, max_recon_attempts, wait_time,
      led, fails, aborted, first_failed, n_sendall, n_reconnect>>

vars == <<server_vars, sender_vars>>

\* ================================================================ server

\* Server.__init__ has not run set_output_csv yet; the file is absent.
ServerInit ==
    /\ server_pc = "init"
    /\ server_sock = "open"
    /\ csv_exists = FALSE
    /\ csv = <<>>
    /\ naccepted = 0
    /\ client_socket = [c \in Conns |-> "unused"]
    /\ address = [c \in Conns |-> "none"]
    /\ thread = [c \in Conns |-> "none"]
    /\ message = [c \in Conns |-> <<>>]
    /\ file = [c \in Conns |-> <<>>]
    /\ nreads = [c \in Conns |-> 0]
    /\ nsaved = [c \in Conns |-> 0]
    /\ ncloses = [c \in Conns |-> 0]
    /\ closed_by = [c \in Conns |-> "none"]
    /\ exc = [c \in Conns |-> "none"]
    /\ called = [m \in Frames |-> 0]
    /\ raised = [m \in Frames |-> 0]
    /\ nstarted = [c \in Conns |-> 0]
    /\ overlapped = FALSE
    /\ nframes = [c \in Conns |-> 0]

\* open(path, "w") in place of "a": the content is dropped at open.
open_truncate(lines) == <<>>

\* open(path, "a"): the file is created when absent, its content is kept.
open_append(lines) == lines

\* file.close() after writerow: the buffered lines go out in one write on a
\* descriptor opened for appending, so they land whole at the end of file.
file_close(lines, buffered) == lines \o buffered

\* The line writer.writerow(headers) puts into the file.
header_row == writerow(headers)

\* set_output_csv without its `if not file_exists`: a header at every start.
set_output_csv_always ==
    /\ UNCHANGED sender_vars
    /\ UNCHANGED nframes
    /\ server_pc = "init"
    /\ csv' = file_close(open_append(csv), <<writerow(headers)>>)
    /\ csv_exists' = TRUE
    /\ server_pc' = "listen"
    /\ server_sock' = "listening"
    /\ UNCHANGED <<naccepted, client_socket, address, thread, message, file,
                   nreads, nsaved, ncloses, closed_by, exc, called, raised,
                   nstarted, overlapped>>

\* Server.set_output_csv, then the socket set-up of __init__ and listen().
set_output_csv ==
    /\ UNCHANGED sender_vars
    /\ UNCHANGED nframes
    /\ server_pc = "init"
    /\ csv' = file_close(open_append(csv),
                         IF csv_exists THEN <<>> ELSE <<writerow(headers)>>)
    /\ csv_exists' = TRUE
    /\ server_pc' = "listen"
    /\ server_sock' = "listening"
    /\ UNCHANGED <<naccepted, client_socket, address, thread, message, file,
                   nreads, nsaved, ncloses, closed_by, exc, called, raised,
                   nstarted, overlapped>>

\* A gate that lets every peer in.
is_allowed_any(ip_address) == ip_address \in PeerAddrs

\* `ip_address in self.allowed_ips`
is_allowed(ip_address) == ip_address \in allowed_ips

\* threading.Thread(target=self.handle_client, args=(client,)).start():
\* connection c gets a thread of its own, at the top of handle_client.
thread_start(c) ==
    /\ client_socket' = [client_socket EXCEPT ![c] = "open"]
    /\ thread' = [thread EXCEPT ![c] = "recv"]
    /\ nstarted' = [nstarted EXCEPT ![c] = @ + 1]
    /\ UNCHANGED <<ncloses, closed_by>>

\* The else branch of listen: client.close(), no thread.
reject(c) ==
    /\ client_socket' = [client_socket EXCEPT ![c] = "closed"]
    /\ ncloses' = [ncloses EXCEPT ![c] = @ + 1]
    /\ closed_by' = [closed_by EXCEPT ![c] = "listen"]
    /\ UNCHANGED <<thread, nstarted>>

\* One turn of the while loop of Server.listen: accept, check, dispatch.
listen_accept(ip_address) ==
    /\ UNCHANGED sender_vars
    /\ UNCHANGED nframes
    /\ server_pc = "listen"
    /\ naccepted < MaxConns
    /\ LET c == naccepted + 1 IN
         /\ naccepted' = c
         /\ address' = [address EXCEPT ![c] = ip_address]
         /\ IF is_allowed(ip_address) THEN thread_start(c) ELSE reject(c)
    /\ UNCHANGED <<server_pc, server_sock, csv_exists, csv, message, file,
                   nreads, nsaved, exc, called, raised, overlapped>>

\* A shutdown that also ends the handlers: every open client socket is
\* closed and every running handler thread is stopped.
run_shutdown_kills ==
    /\ UNCHANGED sender_vars
    /\ UNCHANGED nframes
    /\ server_pc = "listen"
    /\ server_pc' = "down"
    /\ server_sock' = "closed"
    /\ thread' = [c \in Conns |->
                    IF thread[c] = "none" THEN "none" ELSE "done"]
    /\ client_socket' = [c \in Conns |->
                    IF client_socket[c] = "open" THEN "closed"
                    ELSE client_socket[c]]
    /\ UNCHANGED <<csv_exists, csv, naccepted, address,
                   message, file, nreads, nsaved, ncloses, closed_by, exc,
                   called, raised, nstarted, overlapped>>

\* Server.run: listen() is left by KeyboardInterrupt or by an exception of
\* accept(); the finally clause closes the listening socket. Handler threads
\* are not daemon threads and are not joined or signalled.
run_shutdown ==
    /\ UNCHANGED sender_vars
    /\ UNCHANGED nframes
    /\ server_pc = "listen"
    /\ server_pc' = "down"
    /\ server_sock' = "closed"
    /\ UNCHANGED <<csv_exists, csv, naccepted, client_socket, address, thread,
                   message, file, nreads, nsaved, ncloses, closed_by, exc,
                   called, raised,
                   nstarted, overlapped>>

\* handle_client without the close of its finally clause: the thread ends
\* and the socket stays open.
handle_client_finally_leak(c) ==
    /\ thread' = [thread EXCEPT ![c] = "done"]
    /\ UNCHANGED <<client_socket, ncloses, closed_by>>

\* handle_client is left: its finally clause runs client_socket.close() and
\* the thread ends.
handle_client_finally(c) ==
    /\ client_socket' = [client_socket EXCEPT ![c] = "closed"]
    /\ ncloses' = [ncloses EXCEPT ![c] = @ + 1]
    /\ closed_by' = [closed_by EXCEPT ![c] = "handler"]
    /\ thread' = [thread EXCEPT ![c] = "done"]

\* The exception of a handler reaching the accept loop, as it would with
\* handle_client called in the listening thread.
raise_in_process(c, kind) ==
    /\ exc' = [exc EXCEPT ![c] = kind]
    /\ handle_client_finally(c)
    /\ server_pc' = "down"
    /\ server_sock' = "closed"

\* An exception leaves the while loop of handle_client of connection c:
\* socket.error is caught and logged, anything else goes on to end the
\* thread; both pass the finally clause. No other thread is involved.
raise_in_handler(c, kind) ==
    /\ exc' = [exc EXCEPT ![c] = kind]
    /\ handle_client_finally(c)
    /\ UNCHANGED <<server_pc, server_sock>>

\* A non-empty read that is dropped: the loop goes back to recv without
\* calling save_data.
recv_message_no_save(c, data) ==
    /\ UNCHANGED sender_vars
    /\ thread[c] = "recv"
    /\ Sum(called, Frames) < MaxFrames
    /\ nreads' = [nreads EXCEPT ![c] = @ + 1]
    /\ nframes' = [nframes EXCEPT ![c] = @ + 1]
    /\ called' = [called EXCEPT ![data] = @ + 1]
    /\ UNCHANGED <<server_pc, server_sock, csv_exists, csv, naccepted,
                   client_socket, address, thread, message, file, nsaved,
                   ncloses, closed_by, exc, raised, nstarted, overlapped>>

\* client_socket.recv(1024).decode("utf-8") returns a non-empty text.
recv_message(c, data) ==
    /\ UNCHANGED sender_vars
    /\ thread[c] = "recv"
    /\ Sum(called, Frames) < MaxFrames
    /\ nreads' = [nreads EXCEPT ![c] = @ + 1]
    /\ nframes' = [nframes EXCEPT ![c] = @ + 1]
    /\ message' = [message EXCEPT ![c] = data]
    /\ called' = [called EXCEPT ![data] = @ + 1]
    /\ thread' = [thread EXCEPT ![c] = "save"]
    /\ UNCHANGED <<server_pc, server_sock, csv_exists, csv, naccepted,
                   client_socket, address, file, nsaved, ncloses, closed_by,
                   exc, raised,
                   nstarted, overlapped>>

\* recv returns b"": the peer closed, `break`, then the finally clause.
recv_empty(c) ==
    /\ UNCHANGED sender_vars
    /\ UNCHANGED nframes
    /\ thread[c] = "recv"
    /\ nreads' = [nreads EXCEPT ![c] = @ + 1]
    /\ handle_client_finally(c)
    /\ UNCHANGED <<server_pc, server_sock, csv_exists, csv, naccepted,
                   address, message, file, nsaved, exc, called, raised,
                   nstarted, overlapped>>

\* recv raises socket.error, or decode raises UnicodeDecodeError.
recv_raises(c, kind) ==
    /\ UNCHANGED sender_vars
    /\ UNCHANGED nframes
    /\ thread[c] = "recv"
    /\ kind \in {"socket", "decode"}
    /\ nreads' = [nreads EXCEPT ![c] = @ + 1]
    /\ raise_in_handler(c, kind)
    /\ UNCHANGED <<csv_exists, csv, naccepted, address, message, file,
                   nsaved, called, raised, nstarted, overlapped>>

\* save_data: parts = data.split(","), then open(self.csv_path, "a").
save_data_open(c) ==
    /\ UNCHANGED sender_vars
    /\ UNCHANGED nframes
    /\ thread[c] = "save"
    /\ csv' = open_append(csv)
    /\ file' = [file EXCEPT ![c] = <<>>]
    /\ thread' = [thread EXCEPT ![c] = "writerow"]
    /\ overlapped' = (overlapped \/ \E d \in Conns \ {c} :
                                       thread[d] \in {"writerow", "close"})
    /\ UNCHANGED <<server_pc, server_sock, csv_exists, naccepted,
                   client_socket, address, message, nreads, nsaved, ncloses,
                   closed_by, exc, called, raised, nstarted>>

\* open raises OSError (the store cannot be opened): save_data raises into
\* handle_client.
save_data_open_raises(c) ==
    /\ UNCHANGED sender_vars
    /\ UNCHANGED nframes
    /\ thread[c] = "save"
    /\ raised' = [raised EXCEPT ![message[c]] = @ + 1]
    /\ raise_in_handler(c, "write")
    /\ UNCHANGED <<csv_exists, csv, naccepted, address, message, file,
                   nreads, nsaved, called, nstarted, overlapped>>

\* writer.writerow(parts): the row goes to the file object's buffer.
save_data_writerow(c) ==
    /\ UNCHANGED sender_vars
    /\ UNCHANGED nframes
    /\ thread[c] = "writerow"
    /\ file' = [file EXCEPT ![c] = Append(@, writerow(split(message[c])))]
    /\ thread' = [thread EXCEPT ![c] = "close"]
    /\ UNCHANGED <<server_pc, server_sock, csv_exists, csv, naccepted,
                   client_socket, address, message, nreads, nsaved, ncloses,
                   closed_by, exc, called, raised,
                   nstarted, overlapped>>

\* Leaving the with block: the file is flushed and closed; save_data returns
\* and handle_client loops to its next recv.
save_data_close(c) ==
    /\ UNCHANGED sender_vars
    /\ UNCHANGED nframes
    /\ thread[c] = "close"
    /\ csv' = file_close(csv, file[c])
    /\ file' = [file EXCEPT ![c] = <<>>]
    /\ nsaved' = [nsaved EXCEPT ![c] = @ + 1]
    /\ message' = [message EXCEPT ![c] = <<>>]
    /\ thread' = [thread EXCEPT ![c] = "recv"]
    /\ UNCHANGED <<server_pc, server_sock, csv_exists, naccepted,
                   client_socket, address, nreads, ncloses,
                   closed_by, exc, called, raised,
                   nstarted, overlapped>>

\* The server process has ended (run() has returned and every handler thread
\* has finished) and launch_server.py is started again: a new Server() on
\* the same csv_path. The file stays; everything in memory starts afresh.
server_restart ==
    /\ UNCHANGED sender_vars
    /\ server_pc = "down"
    /\ \A c \in Conns : thread[c] \in {"none", "done"}
    /\ server_pc' = "init"
    /\ server_sock' = "open"
    /\ naccepted' = 0
    /\ client_socket' = [c \in Conns |-> "unused"]
    /\ address' = [c \in Conns |-> "none"]
    /\ thread' = [c \in Conns |-> "none"]
    /\ message' = [c \in Conns |-> <<>>]
    /\ file' = [c \in Conns |-> <<>>]
    /\ nreads' = [c \in Conns |-> 0]
    /\ nsaved' = [c \in Conns |-> 0]
    /\ ncloses' = [c \in Conns |-> 0]
    /\ closed_by' = [c \in Conns |-> "none"]
    /\ exc' = [c \in Conns |-> "none"]
    /\ nstarted' = [c \in Conns |-> 0]
    /\ nframes' = [c \in Conns |-> 0]
    /\ UNCHANGED <<csv_exists, csv, called, raised, overlapped>>

handle_client(c) ==
    \/ \E data \in Frames : recv_message(c, data)
    \/ recv_empty(c)
    \/ \E kind \in {"socket", "decode"} : recv_raises(c, kind)
    \/ save_data_open(c)
    \/ save_data_open_raises(c)
    \/ save_data_writerow(c)
    \/ save_data_close(c)

ServerNext ==
    \/ set_output_csv
    \/ \E ip_address \in PeerAddrs : listen_accept(ip_address)
    \/ run_shutdown
    \/ \E c \in Conns : handle_client(c)

\* ================================================================ sender

\* self.max_recon_attempts of Sender.__init__.
DefaultMaxReconAttempts == 100

reconnect_wait_times == <<1, 2, 4, 8, 16, 32>>

\* The sender after __init__ and run()'s set_led_number, with the shipped
\* budget, a small budget, or none.
SenderInit ==
    /\ pc = "run"
    /\ caller = "none"
    /\ sock = NoSocket
    /\ cur_recon_attempts = 0
    /\ max_recon_attempts \in
         {<<n>> : n \in (1..MaxBudget) \cup {DefaultMaxReconAttempts}}
         \cup {None}
    /\ wait_time = 0
    /\ led = "number"
    /\ fails = 0
    /\ aborted = FALSE
    /\ first_failed = FALSE
    /\ n_sendall = 0
    /\ n_reconnect = 0

\* `>` in place of `>=`: one attempt too many.
budget_exhausted_late(cur, max) == max # None /\ cur > max[1]

\* The condition of the `if` that opens reconnect()'s loop.
budget_exhausted(cur, max) == max # None /\ cur >= max[1]

\* The bounded-mode index taken from the counter itself, not the counter - 1.
compute_wait_time_shifted(cur, max) ==
    IF max = None
    THEN IF cur > Len(reconnect_wait_times)
         THEN reconnect_wait_times[Len(reconnect_wait_times)]
         ELSE Min(60, 2 ^ (cur - 1))
    ELSE LET wait_time_index == Min(cur, Len(reconnect_wait_times) - 1)
         IN  Min(reconnect_wait_times[wait_time_index + 1], 60)

\* The wait computed after a failed attempt, cur being the counter after its
\* increment.
compute_wait_time(cur, max) ==
    IF max = None
    THEN IF cur > Len(reconnect_wait_times)
         THEN reconnect_wait_times[Len(reconnect_wait_times)]
         ELSE Min(60, 2 ^ (cur - 1))
    ELSE LET wait_time_index == Min(cur - 1, Len(reconnect_wait_times) - 1)
         IN  Min(reconnect_wait_times[wait_time_index + 1], 60)

\* Where control goes when reconnect() returns to call site `site`.
return_to(site) ==
    CASE site = "sd_connect" -> "sendall1"
      [] site = "sd_retry" -> "sendall2"
      [] site = "run_except" -> "run"

\* Whether control is inside the try block of run() (send_data and what it
\* calls), where `except KeyboardInterrupt` applies.
in_run_try ==
    \/ pc \in {"run", "sendall1", "sendall2"}
    \/ /\ pc \in {"rc_close", "rc_loop", "rc_connect", "rc_sleep"}
       /\ caller \in {"sd_connect", "sd_retry"}

\* run() calls send_data(): fetch_data(), then `if not self.sock`.
send_data_begin ==
    /\ UNCHANGED server_vars
    /\ pc = "run"
    /\ first_failed' = FALSE
    /\ n_sendall' = 0
    /\ n_reconnect' = 0
    /\ IF sock = NoSocket
       THEN pc' = "rc_close" /\ caller' = "sd_connect"
       ELSE pc' = "sendall1" /\ UNCHANGED caller
    /\ UNCHANGED <<sock, cur_recon_attempts, max_recon_attempts, wait_time,
                   led, fails, aborted>>

\* The first self.sock.sendall(...) succeeds; send_data returns to run().
sendall1_ok ==
    /\ UNCHANGED server_vars
    /\ pc = "sendall1"
    /\ sock = "connected"
    /\ n_sendall' = n_sendall + 1
    /\ pc' = "run"
    /\ UNCHANGED <<caller, sock, cur_recon_attempts, max_recon_attempts,
                   wait_time, led, fails, aborted, first_failed, n_reconnect>>

\* A failed transmission counted against the attempt budget.
sendall1_socket_error_counts ==
    /\ UNCHANGED server_vars
    /\ pc = "sendall1"
    /\ sock # NoSocket
    /\ n_sendall' = n_sendall + 1
    /\ first_failed' = TRUE
    /\ n_reconnect' = n_reconnect + 1
    /\ cur_recon_attempts' = cur_recon_attempts + 1
    /\ pc' = "rc_close"
    /\ caller' = "sd_retry"
    /\ UNCHANGED <<sock, max_recon_attempts, wait_time, led, fails, aborted>>

\* The first sendall raises socket.error: `self.reconnect()` of the handler.
sendall1_socket_error ==
    /\ UNCHANGED server_vars
    /\ pc = "sendall1"
    /\ sock # NoSocket
    /\ n_sendall' = n_sendall + 1
    /\ first_failed' = TRUE
    /\ n_reconnect' = n_reconnect + 1
    /\ pc' = "rc_close"
    /\ caller' = "sd_retry"
    /\ UNCHANGED <<sock, cur_recon_attempts, max_recon_attempts, wait_time,
                   led, fails, aborted>>

\* The AttributeError of a missing socket caught inside send_data, which
\* then returns normally to run().
sendall_on_none_swallowed ==
    /\ UNCHANGED server_vars
    /\ pc \in {"sendall1", "sendall2"}
    /\ sock = NoSocket
    /\ pc' = "run"
    /\ UNCHANGED <<caller, sock, cur_recon_attempts, max_recon_attempts,
                   wait_time, led, fails, aborted, first_failed, n_sendall,
                   n_reconnect>>

\* self.sock is None: `self.sock.sendall` raises AttributeError, which is no
\* socket.error; it leaves send_data and reaches run()'s `except Exception`.
sendall_on_none ==
    /\ UNCHANGED server_vars
    /\ pc \in {"sendall1", "sendall2"}
    /\ sock = NoSocket
    /\ pc' = "run_except"
    /\ UNCHANGED <<caller, sock, cur_recon_attempts, max_recon_attempts,
                   wait_time, led, fails, aborted, first_failed, n_sendall,
                   n_reconnect>>

\* The retry succeeds, or raises socket.error, which is printed; either way
\* send_data returns to run().
sendall2_done ==
    /\ UNCHANGED server_vars
    /\ pc = "sendall2"
    /\ sock # NoSocket
    /\ n_sendall' = n_sendall + 1
    /\ pc' = "run"
    /\ UNCHANGED <<caller, sock, cur_recon_attempts, max_recon_attempts,
                   wait_time, led, fails, aborted, first_failed, n_reconnect>>

\* run()'s `except Exception`: print, then self.reconnect().
run_except ==
    /\ UNCHANGED server_vars
    /\ pc = "run_except"
    /\ n_reconnect' = IF first_failed THEN n_reconnect + 1 ELSE n_reconnect
    /\ pc' = "rc_close"
    /\ caller' = "run_except"
    /\ UNCHANGED <<sock, cur_recon_attempts, max_recon_attempts, wait_time,
                   led, fails, aborted, first_failed, n_sendall>>

\* reconnect(): `if self.sock:` close it and set it to None.
reconnect_close ==
    /\ UNCHANGED server_vars
    /\ pc = "rc_close"
    /\ sock' = NoSocket
    /\ pc' = "rc_loop"
    /\ UNCHANGED <<caller, cur_recon_attempts, max_recon_attempts, wait_time,
                   led, fails, aborted, first_failed, n_sendall, n_reconnect>>

\* Giving up that also clears the counter, so that the next call tries again.
reconnect_abort_resets ==
    /\ led' = "X"
    /\ aborted' = TRUE
    /\ cur_recon_attempts' = 0
    /\ fails' = 0
    /\ pc' = return_to(caller)
    /\ UNCHANGED <<caller, sock, max_recon_attempts, wait_time, first_failed,
                   n_sendall, n_reconnect>>

\* The budget is exhausted: show the red X and break; reconnect() returns
\* with self.sock None.
reconnect_abort ==
    /\ led' = "X"
    /\ aborted' = TRUE
    /\ pc' = return_to(caller)
    /\ UNCHANGED <<caller, sock, cur_recon_attempts, max_recon_attempts,
                   wait_time, fails, first_failed, n_sendall, n_reconnect>>

\* self.sock = socket.socket(...), about to connect.
reconnect_socket ==
    /\ sock' = "created"
    /\ pc' = "rc_connect"
    /\ UNCHANGED <<caller, cur_recon_attempts, max_recon_attempts, wait_time,
                   led, fails, aborted, first_failed, n_sendall, n_reconnect>>

\* The top of reconnect()'s while loop.
reconnect_loop ==
    /\ UNCHANGED server_vars
    /\ pc = "rc_loop"
    /\ IF budget_exhausted(cur_recon_attempts, max_recon_attempts)
       THEN reconnect_abort
       ELSE reconnect_socket

\* A successful connect that leaves the counter as it was.
reconnect_connected_no_reset ==
    /\ UNCHANGED server_vars
    /\ pc = "rc_connect"
    /\ sock' = "connected"
    /\ fails' = 0
    /\ pc' = return_to(caller)
    /\ UNCHANGED <<caller, cur_recon_attempts, max_recon_attempts, wait_time,
                   led, aborted, first_failed, n_sendall, n_reconnect>>

\* A successful connect on a socket that is not kept in self.sock.
reconnect_connected_unassigned ==
    /\ UNCHANGED server_vars
    /\ pc = "rc_connect"
    /\ sock' = NoSocket
    /\ cur_recon_attempts' = 0
    /\ fails' = 0
    /\ pc' = return_to(caller)
    /\ UNCHANGED <<caller, max_recon_attempts, wait_time, led, aborted,
                   first_failed, n_sendall, n_reconnect>>

\* connect() succeeds: the counter is reset and reconnect() returns.
reconnect_connected ==
    /\ UNCHANGED server_vars
    /\ pc = "rc_connect"
    /\ sock' = "connected"
    /\ cur_recon_attempts' = 0
    /\ fails' = 0
    /\ pc' = return_to(caller)
    /\ UNCHANGED <<caller, max_recon_attempts, wait_time, led, aborted,
                   first_failed, n_sendall, n_reconnect>>

\* connect() raises socket.error: the counter goes up and the wait is computed.
reconnect_failed ==
    /\ UNCHANGED server_vars
    /\ pc = "rc_connect"
    /\ max_recon_attempts = None => cur_recon_attempts < MaxTracked
    /\ sock' = NoSocket
    /\ cur_recon_attempts' = cur_recon_attempts + 1
    /\ fails' = fails + 1
    /\ wait_time' = compute_wait_time(cur_recon_attempts', max_recon_attempts)
    /\ pc' = "rc_sleep"
    /\ UNCHANGED <<caller, max_recon_attempts, led, aborted, first_failed,
                   n_sendall, n_reconnect>>

\* time.sleep(wait_time) returns; the loop goes round.
reconnect_sleep ==
    /\ UNCHANGED server_vars
    /\ pc = "rc_sleep"
    /\ pc' = "rc_loop"
    /\ UNCHANGED <<caller, sock, cur_recon_attempts, max_recon_attempts,
                   wait_time, led, fails, aborted, first_failed, n_sendall,
                   n_reconnect>>

\* Ctrl-C while run() is inside its try block: `except KeyboardInterrupt`
\* prints, shows the blue A and breaks.
run_stopped ==
    /\ led' = "A"
    /\ pc' = "stopped"

\* Ctrl-C while run() is inside its `except Exception` clause (the
\* self.reconnect() of line 171): no except clause of run() applies, the
\* KeyboardInterrupt leaves run() and main().
run_interrupt_escapes ==
    /\ led' = led
    /\ pc' = "crashed"

\* SIGINT is delivered to the running sender.
KeyboardInterrupt ==
    /\ UNCHANGED server_vars
    /\ pc \notin {"stopped", "crashed"}
    /\ IF in_run_try THEN run_stopped ELSE run_interrupt_escapes
    /\ UNCHANGED <<caller, sock, cur_recon_attempts, max_recon_attempts,
                   wait_time, fails, aborted, first_failed, n_sendall,
                   n_reconnect>>

SenderNext ==
    \/ send_data_begin
    \/ sendall1_ok
    \/ sendall1_socket_error
    \/ sendall_on_none
    \/ sendall2_done
    \/ run_except
    \/ reconnect_close
    \/ reconnect_loop
    \/ reconnect_connected
    \/ reconnect_failed
    \/ reconnect_sleep
    \/ KeyboardInterrupt

\* ======================================================== specifications

\* The server process alone; the sender stays as constructed.
ServerSpecInit ==
    ServerInit /\ SenderInit /\ max_recon_attempts = <<DefaultMaxReconAttempts>>

ServerSpec == ServerSpecInit /\ [][ServerNext]_vars

\* The sender process alone; the server stays as constructed.
SenderSpecInit == SenderInit /\ ServerInit

SenderSpec == SenderSpecInit /\ [][SenderNext]_vars

\* The sender as a running process: its thread is scheduled, so a statement
\* it has reached is executed, a sleep returns, and a sendall or a connect
\* returns one way or the other. Ctrl-C and the outcomes of the network
\* calls are under no obligation.
SenderFairness ==
    /\ WF_vars(send_data_begin)
    /\ WF_vars(sendall1_ok \/ sendall1_socket_error \/ sendall_on_none
                \/ sendall2_done)
    /\ WF_vars(run_except)
    /\ WF_vars(reconnect_close)
    /\ WF_vars(reconnect_loop)
    /\ WF_vars(reconnect_connected \/ reconnect_failed)
    /\ WF_vars(reconnect_sleep)

SenderLiveSpec == SenderSpecInit /\ [][SenderNext]_vars /\ SenderFairness

\* The server process over several runs on the same file.
RestartNext ==
    \/ ServerNext
    \/ server_restart

RestartSpec == ServerSpecInit /\ [][RestartNext]_vars

\* ================================================================ claims

InFile == {c \in Conns : thread[c] \in {"writerow", "close"}}
InSaveData == {c \in Conns : thread[c] \in {"save", "writerow", "close"}}
Rejected == {c \in 1..naccepted : address[c] \notin allowed_ips}
Admitted == {c \in 1..naccepted : address[c] \in allowed_ips}
Bounded == max_recon_attempts # None
Budget == max_recon_attempts[1]

\* C1: at most one handler thread is between save_data's open and its close.
C1_MutualExclusion == Cardinality(InFile) <= 1

\* C2: once every save_data call has returned, the file holds the header and
\* exactly one row per call that did not raise, each row the text of one
\* call, as often as that text was submitted; valid 11-field records arrive
\* whole.
C2_ExactlyNRows ==
    (csv_exists /\ InSaveData = {}) =>
        /\ Len(csv) = 1 + Sum(called, Frames) - Sum(raised, Frames)
        /\ csv[1] = writerow(headers)
        /\ \A m \in Frames : Count(csv, m) = called[m] - raised[m]
        /\ \A m \in ValidFrames : Count(csv, m) > 0 => Len(split(m)) = 11

\* Two handlers had the file open at once, each saved a valid record, and
\* both rows are there.
C2_Witness ==
    /\ overlapped
    /\ InSaveData = {}
    /\ nsaved[1] = 1 /\ nsaved[2] = 1
    /\ csv = <<writerow(headers), fetch_data("rpi02"), fetch_data("rpi01")>>

\* C3: with a budget of N, no more than N attempts fail in a row, an attempt
\* is under way only after fewer than N failures, and the aborted state is
\* entered with exactly N failures behind it.
C3_AbortAfterExactlyN ==
    Bounded =>
        /\ fails <= Budget
        /\ pc = "rc_connect" => fails < Budget
        /\ aborted => fails = Budget

C3_Witness ==
    /\ max_recon_attempts = <<3>>
    /\ aborted /\ led = "X"
    /\ fails = 3

\* C4: a send_data whose first sendall raised socket.error makes one
\* reconnect() and two transmissions of the frame, and returns to run()
\* without a further reconnect().
C4_OneReconnectOneRetry ==
    (first_failed /\ pc \notin {"stopped", "crashed"}) =>
        /\ n_reconnect <= 1
        /\ pc = "run" => n_sendall = 2

\* C5: a connection from outside allowed_ips is closed by the accept loop
\* with no read made on it and no thread started for it, and the step that
\* rejects it leaves the file as it was.
C5_RejectedUntouched ==
    /\ [](\A c \in Rejected :
            /\ client_socket[c] = "closed"
            /\ closed_by[c] = "listen"
            /\ nreads[c] = 0
            /\ nstarted[c] = 0
            /\ thread[c] = "none")
    /\ [][(naccepted' # naccepted /\ address'[naccepted'] \notin allowed_ips)
            => (csv' = csv /\ file' = file /\ thread' = thread)]_vars

C5_Witness ==
    /\ naccepted = 2
    /\ address[1] \in allowed_ips /\ thread[1] = "writerow"
    /\ address[2] \notin allowed_ips /\ client_socket[2] = "closed"

\* C6: every accepted allowed connection has exactly one handler thread and
\* no other connection has any; the step in which a handler fails changes
\* neither the accept loop nor another handler, its socket or the file.
C6_HandlerIsolation ==
    /\ [](\A c \in Conns : nstarted[c] = IF c \in Admitted THEN 1 ELSE 0)
    /\ [][\A c \in Conns : exc'[c] # exc[c] =>
            /\ server_pc' = server_pc
            /\ server_sock' = server_sock
            /\ csv' = csv
            /\ \A d \in Conns \ {c} :
                 /\ thread'[d] = thread[d]
                 /\ client_socket'[d] = client_socket[d]
                 /\ file'[d] = file[d]]_vars

\* A handler has ended on an error while the accept loop listens and its
\* sibling is writing.
C6_Witness ==
    /\ server_pc = "listen"
    /\ thread[1] = "done" /\ exc[1] = "decode"
    /\ thread[2] = "close" /\ exc[2] = "none"

\* C7: once reconnect() has given up, the sender stays aborted: no socket is
\* created, no attempt is made, the counter keeps its value, and the red X
\* stays until an operator stop.
C7_AbortedIsTerminal ==
    [][aborted =>
         /\ aborted'
         /\ sock' = NoSocket
         /\ pc' # "rc_connect"
         /\ cur_recon_attempts' = cur_recon_attempts
         /\ fails' = fails
         /\ led' = "X" \/ pc' = "stopped"]_vars

\* run() goes on after the abort: it is in its except clause, about to call
\* reconnect() again.
C7_Witness ==
    /\ aborted
    /\ pc = "rc_loop" /\ caller = "run_except"

\* C8: a sender ended by an operator stop has shown the stop indication and
\* left run()'s loop through `except KeyboardInterrupt`.
C8_StopReachesStopped ==
    pc \in {"stopped", "crashed"} => (pc = "stopped" /\ led = "A")

\* C9: a connected sender has its counter at 0.
C9_CounterResetOnConnect ==
    sock = "connected" => cur_recon_attempts = 0

\* Connected after three failures in a row (the last wait computed was 4).
C9_Witness ==
    /\ sock = "connected"
    /\ wait_time = 4
    /\ cur_recon_attempts = 0
    /\ pc \in {"sendall1", "sendall2"}

\* C10: with a budget, the wait after the k-th failure in a row is
\* 1, 2, 4, 8, 16, 32 for k = 1..6 and 32 from k = 7 on.
C10_BoundedBackoff ==
    (Bounded /\ pc = "rc_sleep") =>
        wait_time = CASE fails = 1 -> 1
                      [] fails = 2 -> 2
                      [] fails = 3 -> 4
                      [] fails = 4 -> 8
                      [] fails = 5 -> 16
                      [] fails = 6 -> 32
                      [] OTHER -> 32

C10_Witness ==
    /\ Bounded
    /\ pc = "rc_sleep"
    /\ fails = 8
    /\ wait_time = 32

\* C11: without a budget, the wait after the k-th failure in a row is
\* 1, 2, 4, 8, 16, 32 for k = 1..6 and min(60, 2^(k-1)) = 60 from k = 7 on.
C11_UnboundedBackoff ==
    (~Bounded /\ pc = "rc_sleep") =>
        wait_time = CASE fails = 1 -> 1
                      [] fails = 2 -> 2
                      [] fails = 3 -> 4
                      [] fails = 4 -> 8
                      [] fails = 5 -> 16
                      [] fails = 6 -> 32
                      [] OTHER -> 60

\* C12: a sleep is under way only when another attempt follows it: with a
\* budget of N the sender sleeps after fewer than N failures, never after
\* the N-th (for N = 2: attempt, wait 1, attempt, aborted).
C12_SleepOnlyBetweenAttempts ==
    (Bounded /\ pc = "rc_sleep") => fails < Budget

\* C13: every row below the header has exactly 11 fields.
C13_ElevenFields ==
    \A i \in 2..Len(csv) : Len(split(csv[i])) = 11

\* C14: over any number of server runs on the same path the file, once it
\* exists, has the header as its first line and nowhere else; a fresh file
\* that got one valid record holds the header and that record.
C14_HeaderOnce ==
    /\ ~csv_exists => csv = <<>>
    /\ csv_exists =>
         /\ csv[1] = header_row
         /\ \A i \in 2..Len(csv) : csv[i] # header_row
    /\ InSaveData = {} =>
         \A m \in ValidFrames :
            (/\ called[m] = 1 /\ raised[m] = 0
             /\ \A f \in Frames \ {m} : called[f] = 0)
            => csv = <<header_row, m>>

\* A later run of the server (it has accepted nobody yet) finds the rows of
\* an earlier one.
C14_Witness ==
    /\ server_pc = "listen"
    /\ naccepted = 0
    /\ csv = <<header_row, fetch_data("rpi01")>>

\* The handlers that have been started and have not ended.
InFlight == {c \in Conns : thread[c] \in {"recv", "save", "writerow", "close"}}

\* C15: once run() has left listen() the listening socket is closed and no
\* accept can happen; every handler still in flight has its socket open, its
\* buffered row intact and its next step enabled; and every handler that has
\* ended did so by itself: after its own last read, closing its own socket
\* once.
C15_ShutdownDrains ==
    server_pc = "down" =>
        /\ server_sock = "closed"
        /\ ~ENABLED (\E ip_address \in PeerAddrs : listen_accept(ip_address))
        /\ \A c \in InFlight :
             /\ client_socket[c] = "open"
             /\ ncloses[c] = 0
             /\ \/ ENABLED recv_empty(c)
                \/ ENABLED save_data_open(c)
                \/ thread[c] = "writerow"   \* writerow waits for nothing
                \/ ENABLED save_data_close(c)
        /\ \A c \in Admitted \ InFlight :
             /\ thread[c] = "done"
             /\ closed_by[c] = "handler"
             /\ ncloses[c] = 1
             /\ nreads[c] = nsaved[c] + 1

\* The server is down while one handler is in the middle of save_data and
\* another one waits in recv.
C15_Witness ==
    /\ server_pc = "down"
    /\ server_sock = "closed"
    /\ thread[1] = "close"
    /\ thread[2] = "recv"
    /\ client_socket[1] = "open"


\* C16: a handler waiting in recv has appended one row per non-empty read
\* it got; inside save_data exactly the last read is still without its row;
\* a handler that has ended appended as many rows as it got non-empty reads,
\* less the one read whose save_data raised if that is how it ended, and
\* its last read otherwise (empty, or failed) added nothing. The file holds
\* the header and the rows of all handlers.
C16_OneRowPerRead ==
    /\ \A c \in Conns :
         /\ thread[c] = "none" => nframes[c] = 0 /\ nsaved[c] = 0
         /\ thread[c] = "recv" =>
              nsaved[c] = nframes[c] /\ nreads[c] = nframes[c]
         /\ c \in InSaveData =>
              nframes[c] = nsaved[c] + 1 /\ nreads[c] = nframes[c]
         /\ (thread[c] = "done" /\ exc[c] # "write") =>
              nsaved[c] = nframes[c] /\ nreads[c] = nframes[c] + 1
         /\ (thread[c] = "done" /\ exc[c] = "write") =>
              nsaved[c] = nframes[c] - 1 /\ nreads[c] = nframes[c]
    /\ csv_exists => Len(csv) = 1 + Sum(nsaved, Conns)

\* A handler got two non-empty reads and then the empty one: two rows.
C16_Witness ==
    /\ thread[1] = "done"
    /\ exc[1] = "none"
    /\ nframes[1] = 2
    /\ nsaved[1] = 2
    /\ Len(csv) = 3


\* C17: a socket not yet accepted is untouched; a rejected peer's socket was
\* closed once by the accept loop and never read; a running handler's socket
\* is open; an ended handler's socket was closed once, by a handler, whatever
\* ended it. And step by step: a socket is closed or read only in a step of
\* its own connection (the accept that rejects it, or its own handler, which
\* is in recv for a read and ends with the close), a step in which no other
\* handler moves and no other socket changes.
C17_OwnerClosesOnce ==
    /\ [](\A c \in Conns :
            /\ ncloses[c] <= 1
            /\ c > naccepted =>
                 client_socket[c] = "unused" /\ ncloses[c] = 0
            /\ c \in Rejected =>
                 /\ client_socket[c] = "closed" /\ ncloses[c] = 1
                 /\ closed_by[c] = "listen" /\ nreads[c] = 0
                 /\ thread[c] = "none"
            /\ c \in InFlight =>
                 client_socket[c] = "open" /\ ncloses[c] = 0
            /\ (c \in Admitted /\ c \notin InFlight) =>
                 /\ thread[c] = "done"
                 /\ client_socket[c] = "closed" /\ ncloses[c] = 1
                 /\ closed_by[c] = "handler")
    /\ [][\A c \in Conns :
            /\ ncloses'[c] # ncloses[c] =>
                 /\ \/ (naccepted' = c /\ naccepted = c - 1
                        /\ closed_by'[c] = "listen")
                    \/ (c \in InFlight /\ thread'[c] = "done"
                        /\ closed_by'[c] = "handler")
                 /\ \A d \in Conns \ {c} :
                      /\ thread'[d] = thread[d]
                      /\ client_socket'[d] = client_socket[d]
                      /\ ncloses'[d] = ncloses[d]
            /\ nreads'[c] # nreads[c] =>
                 /\ thread[c] = "recv"
                 /\ \A d \in Conns \ {c} :
                      /\ thread'[d] = thread[d]
                      /\ nreads'[d] = nreads[d]
                      /\ client_socket'[d] = client_socket[d]]_vars

\* One handler was ended by a store write error, another by a decode error;
\* both sockets are closed.
C17_Witness ==
    /\ thread[1] = "done" /\ exc[1] = "write"
    /\ thread[2] = "done" /\ exc[2] = "decode"
    /\ client_socket[1] = "closed" /\ client_socket[2] = "closed"
    /\ ncloses[1] = 1 /\ ncloses[2] = 1


\* C18: once aborted, the sender that is not stopped always has a next step
\* of its own, has no socket, and is never in a connect or in a sleep; its
\* steps go round run() -> send_data's reconnect() -> the abort with the red
\* X -> the sendall on no socket -> `except Exception` -> reconnect() -> the
\* abort with the red X -> run(), and only Ctrl-C leaves this cycle.
C18_AbortedSpins ==
    /\ []((aborted /\ pc \notin {"stopped", "crashed"}) =>
            /\ sock = NoSocket
            /\ budget_exhausted(cur_recon_attempts, max_recon_attempts)
            /\ pc \in {"run", "rc_close", "rc_loop", "sendall1", "sendall2",
                       "run_except"}
            /\ ENABLED (send_data_begin \/ reconnect_close \/ reconnect_loop
                        \/ sendall_on_none \/ run_except))
    /\ [][(aborted /\ pc' \notin {"stopped", "crashed"}) =>
            /\ aborted'
            /\ sock' = NoSocket
            /\ cur_recon_attempts' = cur_recon_attempts
            /\ wait_time' = wait_time
            /\ pc = "run" => pc' = "rc_close" /\ caller' = "sd_connect"
            /\ pc = "rc_close" => pc' = "rc_loop"
            /\ pc = "rc_loop" => reconnect_abort
            /\ pc \in {"sendall1", "sendall2"} => pc' = "run_except"
            /\ pc = "run_except" => pc' = "rc_close" /\ caller' = "run_except"
         ]_vars

\* After the abort, the reconnect() of run()'s `except Exception` has shown
\* the X again and returned: run() starts its next iteration.
C18_Witness ==
    /\ aborted
    /\ pc = "run"
    /\ caller = "run_except"
    /\ led = "X"
    /\ sock = NoSocket


\* No connect() of this sender has failed so far: every failed attempt sets
\* wait_time to a positive wait, and nothing sets it back.
NoConnectFailedYet == wait_time = 0

\* C19: as long as no connection attempt has failed, whatever the
\* transmissions do, the counter is 0, no sleep is under way, the sender is
\* not aborted and the red X has not been shown; a reconnect() that has
\* returned has left the sender connected.
C19_OnlyConnectFailuresCount ==
    NoConnectFailedYet =>
        /\ cur_recon_attempts = 0
        /\ fails = 0
        /\ pc # "rc_sleep"
        /\ ~aborted
        /\ led # "X"
        /\ pc \in {"sendall1", "sendall2"} => sock = "connected"

\* A transmission failed, the reconnect() after it connected at once and the
\* retry was made; no connect has failed.
C19_Witness ==
    /\ NoConnectFailedYet
    /\ first_failed
    /\ n_sendall = 2
    /\ n_reconnect = 1
    /\ pc = "run"
    /\ cur_recon_attempts = 0


InReconnect == pc \in {"rc_close", "rc_loop", "rc_connect", "rc_sleep"}
Halted == pc \in {"stopped", "crashed"}

\* reconnect() is running and its budget is not used up.
AttemptsLeft ==
    InReconnect /\ ~budget_exhausted(cur_recon_attempts, max_recon_attempts)

\* reconnect() has returned with a connection and the counter at 0.
ReturnedConnected ==
    ~InReconnect /\ sock = "connected" /\ cur_recon_attempts = 0

\* C20: without a budget the sender is never aborted; a reconnect() with
\* attempts left gets to make its next attempt; and a reconnect() with
\* attempts left after k failures in a row returns with the sender connected
\* and the counter at 0, unless yet another attempt fails (or Ctrl-C ends
\* the run): once the attempts succeed, it connects.
C20_ReconnectSucceeds ==
    /\ [](~Bounded => ~aborted)
    /\ AttemptsLeft ~> (pc = "rc_connect" \/ Halted)
    /\ \A k \in 0..DefaultMaxReconAttempts :
         (AttemptsLeft /\ fails = k)
             ~> (ReturnedConnected \/ Halted \/ fails > k)

\* After three failed attempts in a row, without a budget, reconnect() has
\* returned connected with the counter back at 0.
C20_Witness ==
    /\ ~Bounded
    /\ wait_time = 4
    /\ ReturnedConnected
    /\ ~aborted

====
